---- MODULE Spec2Model ----
(***************************************************************************)
(* Model of budget_optimizer_api.py: the rule engine analyze_campaigns,    *)
(* its helper get_adjustment_percentage_rules and the HTTP handler         *)
(* analyze_budget_endpoint that calls it.                                  *)
(*                                                                         *)
(* Numbers.  Money amounts (cost, purchase_value, budgets) are rationals   *)
(* stored as integers in units of 1/Scale, so that fractional costs such   *)
(* as 10.5 are inputs of the model.  Click counts and the target ROAS      *)
(* percentage are plain integers.  Quotients (roas, cpc, the mean cpc) are *)
(* never formed: every comparison of the code is cross-multiplied, and     *)
(* every round() is Python's round-half-to-even on an exact quotient.      *)
(* The inputs below stay off the points where IEEE doubles and exact       *)
(* arithmetic disagree (e.g. roas = 1.8 against 1.5 * 1.2, which is        *)
(* 1.7999999999999998 in the code).                                        *)
(*                                                                         *)
(* Not modelled: the columns impression, action, purchase and the derived  *)
(* cpa (computed at line 52, never read), and the output fields            *)
(* adjustment_percent and key_metric_value (formatting only).  The text of *)
(* `reason` is modelled as the sequence of its fragments.                  *)
(***************************************************************************)
EXTENDS Integers, Sequences, FiniteSets, TLC

VARIABLES has_data, total_budget, target_roas, campaign_data, pc, ret, response

vars == <<has_data, total_budget, target_roas, campaign_data, pc, ret, response>>

(***************************************************************************)
(* Bounds and program constants                                            *)
(***************************************************************************)
\* Money amounts are multiples of 1/Scale.
Scale == 2
\* Largest number of campaigns in one request.
MaxBatch == 2

\* timedelta(hours=24)
NEW_WINDOW_HOURS == 24
\* abs(new_budget - current_budget) < 5
MIN_CHANGE == 5

(***************************************************************************)
(* Raw JSON field values.  A numeric field of a record is a number, a      *)
(* value pd.to_numeric cannot parse (a word, null), or an absent key.      *)
(***************************************************************************)
Num(n) == <<"num", n>>
NonNumeric == <<"str", 0>>
Absent == <<"absent", 0>>

\* create_time: a timestamp pd.to_datetime parses, given by its age
\* now - create_time in hours, or a value it turns into NaT.
Ts(age) == <<"ts", age>>
NaT == <<"nat", 0>>

\* campaign_id: a JSON string or a JSON integer.
IdStr(s) == <<"str", 0, s>>
IdInt(n) == <<"int", n, "">>

Money(units) == units * Scale

(***************************************************************************)
(* Pure functions of the code                                              *)
(***************************************************************************)
Abs(x) == IF x < 0 THEN -x ELSE x

\* Python round(n / d) for d > 0: round half to even, result an integer.
PyRound(n, d) ==
    LET q == n \div d
        r == n % d
    IN  IF 2 * r < d THEN q
        ELSE IF 2 * r > d THEN q + 1
        ELSE IF q % 2 = 0 THEN q ELSE q + 1

\* str(campaign_id)
PyStr(id) == IF id[1] = "int" THEN ToString(id[2]) ELSE id[3]

\* Mutant: the tier boundaries taken exclusive (< 50, < 100, < 500).
TiersExclusive(daily_spend) ==
    IF daily_spend < Money(50) THEN 20
    ELSE IF daily_spend < Money(100) THEN 10
    ELSE IF daily_spend < Money(500) THEN 5
    ELSE 3

\* get_adjustment_percentage_rules(daily_spend): the factor in tenths.
get_adjustment_percentage_rules(daily_spend) ==
    IF daily_spend <= Money(50) THEN 20
    ELSE IF Money(50) < daily_spend /\ daily_spend <= Money(100) THEN 10
    ELSE IF Money(100) < daily_spend /\ daily_spend <= Money(500) THEN 5
    ELSE 3

\* pd.to_numeric(value, errors='coerce') followed by fillna(0).
ToNumeric(raw) == IF raw[1] = "num" THEN raw[2] ELSE 0

\* pd.DataFrame(campaign_data) has column col iff some record has the key.
HasColumn(cd, col) == \E k \in 1..Len(cd) : cd[k][col][1] # "absent"

NumericCols == {"cost", "click", "purchase_value"}

\* The DataFrame after lines 45-55: coerced columns, create_time_dt.
Frame(cd) ==
    [k \in 1..Len(cd) |->
        [campaign_id |-> cd[k].campaign_id,
         cost |-> ToNumeric(cd[k].cost),
         click |-> ToNumeric(cd[k].click),
         purchase_value |-> ToNumeric(cd[k].purchase_value),
         create_time_dt |-> cd[k].create_time]]

\* Rows whose cpc is finite (df['cpc'] != np.inf), i.e. click > 0.
ValidCpc(df) == {k \in 1..Len(df) : df[k].click > 0}

RECURSIVE ClickProduct(_, _)
ClickProduct(df, S) ==
    IF S = {} THEN 1
    ELSE LET k == CHOOSE x \in S : TRUE
         IN  df[k].click * ClickProduct(df, S \ {k})

\* cpc of row k times the product P of all valid click counts (an integer).
CpcTimes(df, k, P) == df[k].cost * (P \div df[k].click)

RECURSIVE CpcSumTimes(_, _, _)
CpcSumTimes(df, S, P) ==
    IF S = {} THEN 0
    ELSE LET k == CHOOSE x \in S : TRUE
         IN  CpcTimes(df, k, P) + CpcSumTimes(df, S \ {k}, P)

\* avg_cpc_all is NaN when no row has a finite cpc.
AvgCpcDefined(df) == ValidCpc(df) # {}

\* Mutant: an infinite cpc (no clicks) never counts as above the average.
CpcAboveAverageFiniteOnly(df, k) ==
    LET V == ValidCpc(df)
        P == ClickProduct(df, V)
    IN  IF ~AvgCpcDefined(df) THEN FALSE
        ELSE IF df[k].click <= 0 THEN FALSE
        ELSE 10 * Cardinality(V) * CpcTimes(df, k, P) > 13 * CpcSumTimes(df, V, P)

\* cpc > avg_cpc_all * 1.3   (line 79).  A comparison with NaN is False;
\* inf exceeds every finite value.
CpcAboveAverage(df, k) ==
    LET V == ValidCpc(df)
        P == ClickProduct(df, V)
    IN  IF ~AvgCpcDefined(df) THEN FALSE
        ELSE IF df[k].click <= 0 THEN TRUE
        ELSE 10 * Cardinality(V) * CpcTimes(df, k, P) > 13 * CpcSumTimes(df, V, P)

\* Mutant: the window given in minutes (timedelta(minutes=24)), so that no
\* campaign a whole hour old is new.
IsNewMinutes(create_time) == create_time[1] = "ts" /\ create_time[2] < 1

\* pd.notna(create_time) and (now - create_time) < timedelta(hours=24)
IsNew(create_time) == create_time[1] = "ts" /\ create_time[2] < NEW_WINDOW_HOURS

\* roas > target_roas_value * 1.2, with roas = purchase_value / cost if
\* cost > 0 else 0 and target_roas_value = target_roas / 100.0.
RoasNum(row) == IF row.cost > 0 THEN row.purchase_value ELSE 0
RoasDen(row) == IF row.cost > 0 THEN row.cost ELSE 1
Outperforms(row, target) == 1000 * RoasNum(row) > 12 * target * RoasDen(row)
\* Mutant: the guard 0 < roas dropped.
UnderperformsNoZeroGuard(row, target) ==
    1000 * RoasNum(row) < 8 * target * RoasDen(row)

\* 0 < roas < target_roas_value * 0.8
Underperforms(row, target) ==
    /\ RoasNum(row) > 0
    /\ 1000 * RoasNum(row) < 8 * target * RoasDen(row)

\* round(max(current_budget * 0.5, 1)), in whole currency units.
NewDecreaseBudget(cost) ==
    IF cost > 2 * Scale THEN PyRound(cost, 2 * Scale) ELSE 1

\* Mutant: the budget cut to 30% instead of by 30%.
EstDecreaseTo30Percent(cost) ==
    IF 3 * cost > 10 * Scale THEN PyRound(3 * cost, 10 * Scale) ELSE 1

\* round(max(current_budget * 0.7, 1))
EstDecreaseBudget(cost) ==
    IF 7 * cost > 10 * Scale THEN PyRound(7 * cost, 10 * Scale) ELSE 1

\* round(current_budget + current_budget * max_increase_factor)
IncreaseBudget(cost) ==
    PyRound(cost * (10 + get_adjustment_percentage_rules(cost)), 10 * Scale)


(***************************************************************************)
(* The per-campaign pass of analyze_campaigns (lines 63-126)               *)
(***************************************************************************)
Outcome(b, s, r) == [new_budget |-> b, status |-> s, reason |-> r]

\* Rule 1 (lines 77-85): a campaign created less than 24 hours ago.
NewRule(df, k) ==
    IF CpcAboveAverage(df, k)
    THEN Outcome(Money(NewDecreaseBudget(df[k].cost)), "decreased", <<"new_cpc_high">>)
    ELSE Outcome(df[k].cost, "unchanged", <<"new_observe">>)

\* Rule 2 (lines 88-99): ROAS against the target.
EstablishedRule(row, target) ==
    IF Outperforms(row, target)
    THEN Outcome(Money(IncreaseBudget(row.cost)), "increased", <<"roas_high">>)
    ELSE IF Underperforms(row, target)
    THEN Outcome(Money(EstDecreaseBudget(row.cost)), "decreased", <<"roas_low">>)
    ELSE Outcome(row.cost, "unchanged", <<"stable">>)

\* Lines 71-99: the default outcome replaced by the rule of the branch.
ApplyRules(df, k, target) ==
    IF IsNew(df[k].create_time_dt) THEN NewRule(df, k)
    ELSE EstablishedRule(df[k], target)

\* Mutant: the threshold one unit lower.
BelowMinChangeFour(new_budget, cost) == Abs(new_budget - cost) < Money(4)

\* abs(new_budget - current_budget) < 5   (line 102)
BelowMinChange(new_budget, cost) == Abs(new_budget - cost) < Money(MIN_CHANGE)

\* Mutant: the budget reverted but status left as the rule set it (line 106
\* missing).
SuppressKeepStatus(o, cost) ==
    IF Abs(o.new_budget - cost) < Money(MIN_CHANGE)
    THEN [new_budget |-> cost, status |-> o.status,
          reason |-> IF o.status # "unchanged" THEN Append(o.reason, "suppressed")
                     ELSE o.reason]
    ELSE o

\* Rule 3 (lines 102-106).
Suppress(o, cost) ==
    IF BelowMinChange(o.new_budget, cost)
    THEN Outcome(cost, "unchanged",
                 IF o.status # "unchanged" THEN Append(o.reason, "suppressed")
                 ELSE o.reason)
    ELSE o

\* Rule 4 (line 109): int(round(new_budget)), in whole currency units.
IntRound(new_budget) == PyRound(new_budget, Scale)

\* Mutant: "below 20% of the budget" read as "lowered by 20%"
\* (new_budget < max(current_budget * 0.8, 1)).
LowBudgetEightyPercent(nb, cost, status) ==
    /\ IF 4 * cost > 5 * Scale THEN 5 * Scale * nb < 4 * cost ELSE nb < 1
    /\ status = "decreased"

\* Rule 5 (line 113): new_budget < max(current_budget * 0.2, 1) and
\* status == "decreased"; nb is in whole currency units.
LowBudget(nb, cost, status) ==
    /\ IF cost > 5 * Scale THEN 5 * Scale * nb < cost ELSE nb < 1
    /\ status = "decreased"

\* Lines 64-126: the decision appended for row k.
Decide(df, k, target) ==
    LET cost == df[k].cost
        o == Suppress(ApplyRules(df, k, target), cost)
        nb == IntRound(o.new_budget)
    IN  [campaign_id |-> PyStr(df[k].campaign_id),
         old_budget |-> cost,
         new_budget |-> Money(nb),
         adjustment_amount |-> Money(nb) - cost,
         status |-> o.status,
         reason |-> IF LowBudget(nb, cost, o.status)
                    THEN Append(o.reason, "low_budget") ELSE o.reason]

(***************************************************************************)
(* analyze_campaigns(total_budget, target_roas, campaign_data): what the   *)
(* call returns or raises.                                                 *)
(***************************************************************************)
Returned(kind, err, ds) == [kind |-> kind, error |-> err, decisions |-> ds]
NoReturn == Returned("none", "", <<>>)

\* The first column of numeric_cols that df[col] does not find (line 47).
MissingColumn(cd) == {c \in NumericCols : ~HasColumn(cd, c)}

analyze_campaigns(tb, target, cd) ==
    IF Len(cd) = 0 THEN Returned("error", "Campaign data is empty.", <<>>)
    ELSE IF MissingColumn(cd) # {} THEN Returned("raise", "KeyError", <<>>)
    ELSE LET df == Frame(cd)
         IN  Returned("results", "", [k \in 1..Len(df) |-> Decide(df, k, target)])

\* all([total_budget, target_roas, campaign_data])   (line 144)
AllPresent(tb, target, cd) == tb # 0 /\ target # 0 /\ Len(cd) > 0

Response(code, err) == [code |-> code, error |-> err]
NoResponse == Response(0, "")

(***************************************************************************)
(* Inputs                                                                  *)
(***************************************************************************)
Campaign(id, cost, click, pv, ct) ==
    [campaign_id |-> id, cost |-> cost, click |-> click,
     purchase_value |-> pv, create_time |-> ct]

\* Established campaigns (created 30 hours ago), 20 clicks each.
EstablishedInputs ==
    {Campaign(IdStr("e"), c[1], Num(20), c[2], Ts(30)) : c \in
        {<<Num(Money(40)), Num(0)>>,             \* scenario A
         <<Num(Money(40)), Num(Money(80))>>,     \* scenario B
         <<Num(Money(40)), Num(Money(3))>>,
         <<Num(Money(600)), Num(Money(300))>>,   \* scenario C
         <<Num(Money(600)), Num(Money(2000))>>,
         <<Num(Money(50)), Num(Money(2000))>>,
         <<Num(Money(51)), Num(Money(2000))>>,
         <<Num(Money(100)), Num(Money(300))>>,
         <<Num(Money(101)), Num(Money(2000))>>,
         <<Num(Money(200)), Num(Money(300))>>,
         <<Num(Money(500)), Num(Money(2000))>>,
         <<Num(Money(501)), Num(Money(2000))>>,
         <<Num(Money(6)), Num(Money(3))>>,
         <<Num(Money(6)), Num(Money(80))>>,
         <<Num(Money(1)), Num(Money(80))>>,
         <<Num(Money(2)), Num(Money(80))>>,      \* scenario E: a change of 4
         <<Num((Money(21)) \div 2), Num(0)>>,            \* cost 10.5
         <<Num((Money(21)) \div 2), Num(Money(3))>>,
         <<Num((Money(21)) \div 2), Num(Money(80))>>,
         <<Num(Money(-10)), Num(0)>>,
         <<Num(Money(-10)), Num(Money(80))>>,
         <<NonNumeric, Num(Money(80))>>,
         <<Absent, Num(0)>>,
         <<Num(Money(40)), NonNumeric>>}}

\* Campaigns at the edges of the classification: unparseable create_time,
\* exactly 24 hours old, 23 hours old, created in the future; integer
\* campaign_id; no clicks; no click key.
OtherInputs ==
    {Campaign(IdInt(7), Num(Money(40)), Num(20), Num(Money(80)), NaT),
     Campaign(IdInt(7), Num(Money(40)), Num(40), Num(Money(2000)), Ts(23)),
     Campaign(IdInt(12), Num(Money(100)), Num(0), Num(Money(2000)), Ts(-1)),
     Campaign(IdInt(7), Num(Money(40)), Num(0), Num(Money(3)), Ts(24)),
     Campaign(IdStr("e"), Num(Money(600)), Absent, Num(Money(300)), Ts(30))}

\* New campaigns (created 2 hours ago).
NewInputs ==
    {Campaign(IdStr("n"), c[1], c[2], c[3], Ts(2)) : c \in
        {<<Num(Money(100)), Num(20), Num(0)>>,   \* scenario D: cpc 5
         <<Num(Money(40)), Num(40), Num(0)>>,    \* cpc 1
         <<Num(Money(40)), Num(40), Num(Money(2000))>>,
         <<Num(Money(100)), Num(0), Num(0)>>,
         <<Num(Money(6)), Num(0), Num(Money(80))>>,
         <<Num(Money(9)), Num(2), Num(0)>>,
         <<Num((Money(21)) \div 2), Num(0), Num(0)>>,
         <<Num(Money(-10)), Num(0), Num(0)>>,
         <<Num(Money(-10)), Num(20), Num(0)>>,
         <<NonNumeric, NonNumeric, Num(0)>>,
         <<Absent, Num(0), Num(0)>>}}

Campaigns == EstablishedInputs \cup OtherInputs \cup NewInputs

Batches == UNION {[1..n -> Campaigns] : n \in 0..MaxBatch}

\* target_roas is a percentage; 0 is falsy at the endpoint.
TargetRoasValues == {150, 100, -100, 0}
TotalBudgets == {1000, 0}

(***************************************************************************)
(* State machine                                                           *)
(***************************************************************************)
\* A request has arrived (has_data: request.get_json() is truthy), or the
\* arguments of a direct call of analyze_campaigns are given.
Init ==
    /\ has_data \in BOOLEAN
    /\ IF has_data
       THEN /\ total_budget \in TotalBudgets
            /\ target_roas \in TargetRoasValues
            /\ campaign_data \in Batches
       ELSE /\ total_budget = 0
            /\ target_roas = 0
            /\ campaign_data = <<>>
    /\ pc = "start"
    /\ ret = NoReturn
    /\ response = NoResponse

\* Lines 136-138: no JSON body.
EndpointInvalidJson ==
    /\ pc = "start"
    /\ ~has_data
    /\ pc' = "responded"
    /\ response' = Response(400, "Invalid JSON")
    /\ UNCHANGED <<has_data, total_budget, target_roas, campaign_data, ret>>

\* Lines 140-145: a falsy parameter.
EndpointMissing ==
    /\ pc = "start"
    /\ has_data
    /\ ~AllPresent(total_budget, target_roas, campaign_data)
    /\ pc' = "responded"
    /\ response' = Response(400, "Missing required parameters")
    /\ UNCHANGED <<has_data, total_budget, target_roas, campaign_data, ret>>

\* Lines 148-157: the handler calls the core and answers with its result,
\* or with status 500 when the call raises.
EndpointAnalyze ==
    /\ pc = "start"
    /\ has_data
    /\ AllPresent(total_budget, target_roas, campaign_data)
    /\ ret' = analyze_campaigns(total_budget, target_roas, campaign_data)
    /\ response' = IF ret'.kind = "raise"
                   THEN Response(500, "An internal error occurred.")
                   ELSE Response(200, ret'.error)
    /\ pc' = "responded"
    /\ UNCHANGED <<has_data, total_budget, target_roas, campaign_data>>

\* analyze_campaigns called directly with the given arguments.
DirectCall ==
    /\ pc = "start"
    /\ has_data
    /\ ret' = analyze_campaigns(total_budget, target_roas, campaign_data)
    /\ pc' = IF ret'.kind = "raise" THEN "raised" ELSE "returned"
    /\ UNCHANGED <<has_data, total_budget, target_roas, campaign_data, response>>

Next ==
    \/ EndpointInvalidJson
    \/ EndpointMissing
    \/ EndpointAnalyze
    \/ DirectCall

Spec == Init /\ [][Next]_vars


(***************************************************************************)
(* Vocabulary of the properties                                            *)
(***************************************************************************)
\* analyze_campaigns has been called and returned a list of decisions.
GotDecisions == ret.kind = "results"
\* analyze_campaigns has been called (directly or by the handler).
CoreCalled == ret.kind # "none"

Rows == Frame(campaign_data)
Decisions == ret.decisions
RowIds == 1..Len(campaign_data)

\* The classification of section 4.2 of the specification, on a row.
ClassNew(row) ==
    row.create_time_dt[1] = "ts" /\ row.create_time_dt[2] < 24
ClassEstablished(row) == ~ClassNew(row)

\* roas is exactly 0: cost == 0 (the code: cost <= 0) or purchase_value == 0.
ZeroRoas(row) == row.cost <= 0 \/ row.purchase_value = 0

\* roas > (target_roas / 100) * 1.2
RoasAboveTarget(row, target) ==
    IF row.cost > 0 THEN 1000 * row.purchase_value > 12 * target * row.cost
    ELSE 0 > 12 * target

\* The tier table of section 4.2, factor in tenths.
TierFactor(cost) ==
    IF cost <= 50 * Scale THEN 20
    ELSE IF cost <= 100 * Scale THEN 10
    ELSE IF cost <= 500 * Scale THEN 5
    ELSE 3

\* round(current_budget + current_budget * factor), in money units.
RaisedBudget(cost) == Scale * PyRound(cost * (10 + TierFactor(cost)), 10 * Scale)
\* round(max(current_budget * 0.5, 1)), in money units.
HalvedBudget(cost) ==
    Scale * (IF cost > 2 * Scale THEN PyRound(cost, 2 * Scale) ELSE 1)

\* |a - b| >= 5 currency units.
AtLeastFive(a, b) == Abs(a - b) >= 5 * Scale

\* x is the rational y rounded to the nearest whole unit, ties to even.
IsRounded(x, y) ==
    /\ x % Scale = 0
    /\ 2 * Abs(x - y) <= Scale
    /\ (2 * Abs(x - y) = Scale => (x \div Scale) % 2 = 0)


(***************************************************************************)
(* C1  Minimum-change law                                                  *)
(***************************************************************************)
\* The budget the NEW or ESTABLISHED rule computed for row k.
RuleBudget(k) == ApplyRules(Rows, k, target_roas).new_budget

\* C1 as stated: whenever the rule's budget is within 5 of old_budget, the
\* decision is 'unchanged' with new_budget = old_budget and
\* adjustment_amount = 0, for every cost, fractional ones included.
C1_Original ==
    GotDecisions =>
        \A k \in RowIds :
            ~AtLeastFive(RuleBudget(k), Rows[k].cost) =>
                /\ Decisions[k].status = "unchanged"
                /\ Decisions[k].new_budget = Decisions[k].old_budget
                /\ Decisions[k].adjustment_amount = 0

\* C1 amended: whenever the rule's budget is within 5 of old_budget, the
\* decision is 'unchanged' and new_budget is old_budget rounded to the
\* nearest integer (ties to even); it equals old_budget, with
\* adjustment_amount = 0, when the cost is a whole number.
C1_MinimumChange ==
    GotDecisions =>
        \A k \in RowIds :
            ~AtLeastFive(RuleBudget(k), Rows[k].cost) =>
                /\ Decisions[k].status = "unchanged"
                /\ IsRounded(Decisions[k].new_budget, Decisions[k].old_budget)
                /\ Decisions[k].adjustment_amount =
                       Decisions[k].new_budget - Decisions[k].old_budget
                /\ (Decisions[k].old_budget % Scale = 0 =>
                        /\ Decisions[k].new_budget = Decisions[k].old_budget
                        /\ Decisions[k].adjustment_amount = 0)

\* A rule decided a change of less than 5 (scenario E: 2 -> 6) and the
\* decision came back unchanged with the suppression note.
C1_Witness ==
    /\ GotDecisions
    /\ \E k \in RowIds :
        /\ Rows[k].cost = 2 * Scale
        /\ RuleBudget(k) = 6 * Scale
        /\ Decisions[k].status = "unchanged"
        /\ Decisions[k].reason = <<"roas_high", "suppressed">>

(***************************************************************************)
(* C2  new_budget is a non-negative integer                                *)
(***************************************************************************)
\* C2 as stated: in every decision new_budget is a non-negative integer,
\* whatever the record's cost (negative, non-numeric, missing, fractional).
C2_NonNegativeInteger ==
    GotDecisions =>
        \A k \in RowIds :
            /\ Decisions[k].new_budget % Scale = 0
            /\ Decisions[k].new_budget >= 0

(***************************************************************************)
(* C3  status describes the final budget                                   *)
(***************************************************************************)
\* C3 as stated: increased iff new_budget > old_budget, decreased iff
\* new_budget < old_budget, unchanged iff new_budget = old_budget.  It is
\* stated here for the records of the data model (cost >= 0) only, where it
\* already fails.
C3_Original ==
    GotDecisions =>
        \A k \in RowIds :
            LET d == Decisions[k] IN
            d.old_budget >= 0 =>
            /\ d.adjustment_amount = d.new_budget - d.old_budget
            /\ (d.status = "increased" <=> d.new_budget > d.old_budget)
            /\ (d.status = "decreased" <=> d.new_budget < d.old_budget)
            /\ (d.status = "unchanged" <=> d.new_budget = d.old_budget)

\* C3 amended: status is 'unchanged' iff the final budget differs from
\* old_budget by less than 5, and then new_budget is old_budget rounded to
\* the nearest integer; for old_budget >= 0, status is 'increased' iff
\* new_budget - old_budget >= 5 and 'decreased' iff old_budget -
\* new_budget >= 5.
C3_StatusFinal ==
    GotDecisions =>
        \A k \in RowIds :
            LET d == Decisions[k] IN
            /\ d.status \in {"unchanged", "increased", "decreased"}
            /\ d.adjustment_amount = d.new_budget - d.old_budget
            /\ (d.status = "unchanged" <=> ~AtLeastFive(d.new_budget, d.old_budget))
            /\ (d.status = "unchanged" => IsRounded(d.new_budget, d.old_budget))
            /\ (d.old_budget >= 0 =>
                    /\ (d.status = "increased" <=>
                            d.new_budget - d.old_budget >= 5 * Scale)
                    /\ (d.status = "decreased" <=>
                            d.old_budget - d.new_budget >= 5 * Scale))

\* A rule decided an increase that was then suppressed, and the status
\* returned is 'unchanged' with the budget left alone.
C3_Witness ==
    /\ GotDecisions
    /\ \E k \in RowIds :
        /\ ApplyRules(Rows, k, target_roas).status = "increased"
        /\ Decisions[k].status = "unchanged"
        /\ Decisions[k].new_budget = Decisions[k].old_budget

(***************************************************************************)
(* C4  ESTABLISHED increase by budget tier                                 *)
(***************************************************************************)
\* C4: an ESTABLISHED campaign with roas > (target_roas/100) * 1.2 gets
\* new_budget = round(current_budget + current_budget * factor) with the
\* factor of its tier and status 'increased', unless that change is below 5,
\* in which case the decision is 'unchanged' with the suppression note.
C4_TierIncrease ==
    GotDecisions =>
        \A k \in RowIds :
            (ClassEstablished(Rows[k]) /\ RoasAboveTarget(Rows[k], target_roas)) =>
                LET d == Decisions[k]
                    raised == RaisedBudget(Rows[k].cost)
                IN  IF AtLeastFive(raised, Rows[k].cost)
                    THEN /\ d.new_budget = raised
                         /\ d.status = "increased"
                         /\ d.reason = <<"roas_high">>
                    ELSE /\ d.status = "unchanged"
                         /\ d.reason = <<"roas_high", "suppressed">>

\* Scenario B: current_budget 40, target 150, roas 2.0 gives 120, increased.
C4_Witness ==
    /\ GotDecisions
    /\ target_roas = 150
    /\ \E k \in RowIds :
        /\ ClassEstablished(Rows[k])
        /\ Rows[k].cost = 40 * Scale
        /\ Rows[k].purchase_value = 80 * Scale
        /\ Decisions[k].new_budget = 120 * Scale
        /\ Decisions[k].status = "increased"

(***************************************************************************)
(* C5  ESTABLISHED campaign with roas exactly 0                            *)
(***************************************************************************)
\* The decision is 'unchanged', its budget is the old one (normalised to an
\* integer) and the underperformance rule did not fire.
Untouched(d) ==
    /\ d.status = "unchanged"
    /\ IsRounded(d.new_budget, d.old_budget)
    /\ d.reason[1] # "roas_low"

\* C5 as stated: an ESTABLISHED campaign with roas = 0 is returned
\* unchanged for every target_roas the request boundary accepts (line 144:
\* every truthy value).  It is stated here for the records of the data
\* model (cost >= 0) only, where it already fails.
C5_Original ==
    GotDecisions =>
        \A k \in RowIds :
            (/\ ClassEstablished(Rows[k])
             /\ Rows[k].cost >= 0
             /\ ZeroRoas(Rows[k])
             /\ target_roas # 0) =>
                Untouched(Decisions[k])

\* C5 amended: an ESTABLISHED campaign with roas = 0 is returned unchanged,
\* with no rule altering its budget, for every target_roas >= 0.
C5_ZeroRoasUnchanged ==
    GotDecisions =>
        \A k \in RowIds :
            (ClassEstablished(Rows[k]) /\ ZeroRoas(Rows[k]) /\ target_roas >= 0) =>
                Untouched(Decisions[k])

\* Scenario A: current_budget 40, roas 0, target 150, created 30 hours ago.
C5_Witness ==
    /\ GotDecisions
    /\ target_roas = 150
    /\ \E k \in RowIds :
        /\ ClassEstablished(Rows[k])
        /\ Rows[k].cost = 40 * Scale
        /\ Rows[k].purchase_value = 0
        /\ Decisions[k].status = "unchanged"
        /\ Decisions[k].new_budget = 40 * Scale


(***************************************************************************)
(* C6  NEW campaign without clicks                                         *)
(***************************************************************************)
\* The NEW-branch decrease rule fired for decision d of a row with this
\* cost: the reason starts with the CPC explanation, and the budget is
\* round(max(current_budget * 0.5, 1)) with status 'decreased' unless the
\* change was below 5 and suppressed.
DecreaseFired(d, cost) ==
    /\ d.reason[1] = "new_cpc_high"
    /\ IF AtLeastFive(HalvedBudget(cost), cost)
       THEN d.status = "decreased" /\ d.new_budget = HalvedBudget(cost)
       ELSE d.status = "unchanged" /\ d.reason = <<"new_cpc_high", "suppressed">>

\* C6 as stated: for a NEW campaign with click == 0 the decrease rule fires
\* in every batch, also when no campaign of the batch has click > 0.
C6_Original ==
    GotDecisions =>
        \A k \in RowIds :
            (ClassNew(Rows[k]) /\ Rows[k].click = 0) =>
                DecreaseFired(Decisions[k], Rows[k].cost)

\* C6 amended: for a NEW campaign with click == 0 the decrease rule fires
\* in every batch in which at least one campaign has click > 0
\* (avg_cpc_valid is defined); in a batch without one the campaign is
\* returned unchanged as a new campaign under observation.
C6_ZeroClickDecrease ==
    GotDecisions =>
        \A k \in RowIds :
            (ClassNew(Rows[k]) /\ Rows[k].click = 0) =>
                IF \E j \in RowIds : Rows[j].click > 0
                THEN DecreaseFired(Decisions[k], Rows[k].cost)
                ELSE /\ Decisions[k].status = "unchanged"
                     /\ Decisions[k].reason = <<"new_observe">>

\* A NEW campaign with no clicks and budget 100, in a batch with a campaign
\* that has clicks, was cut to 50.
C6_Witness ==
    /\ GotDecisions
    /\ \E k \in RowIds :
        /\ ClassNew(Rows[k])
        /\ Rows[k].click = 0
        /\ Rows[k].cost = 100 * Scale
        /\ \E j \in RowIds : Rows[j].click > 0
        /\ Decisions[k].status = "decreased"
        /\ Decisions[k].new_budget = 50 * Scale

(***************************************************************************)
(* C7  New-campaign protection                                             *)
(***************************************************************************)
\* C7: a NEW campaign is never 'increased'; it is 'decreased', to
\* round(max(current_budget * 0.5, 1)), exactly when avg_cpc_valid is defined
\* and cpc > avg_cpc_valid * 1.3 and the change is at least 5; otherwise it
\* is 'unchanged'.
C7_NewProtection ==
    GotDecisions =>
        \A k \in RowIds :
            ClassNew(Rows[k]) =>
                LET d == Decisions[k]
                    cut == /\ \E j \in RowIds : Rows[j].click > 0
                           /\ CpcAboveAverage(Rows, k)
                           /\ AtLeastFive(HalvedBudget(Rows[k].cost), Rows[k].cost)
                IN  /\ d.status # "increased"
                    /\ (d.status = "decreased" <=> cut)
                    /\ (cut => d.new_budget = HalvedBudget(Rows[k].cost))
                    /\ (~cut => /\ d.status = "unchanged"
                                /\ IsRounded(d.new_budget, d.old_budget))

\* Scenario D: current_budget 100, created 2 hours ago, cpc 5 against an
\* average of 3 (the other campaign has cpc 1): 50, decreased.
C7_Witness ==
    /\ GotDecisions
    /\ Len(campaign_data) = 2
    /\ \E k \in RowIds :
        /\ ClassNew(Rows[k])
        /\ Rows[k].cost = 100 * Scale /\ Rows[k].click = 20
        /\ \E j \in RowIds : Rows[j].cost = 40 * Scale /\ Rows[j].click = 40
        /\ Decisions[k].new_budget = 50 * Scale
        /\ Decisions[k].status = "decreased"

(***************************************************************************)
(* C8  Scenario C                                                          *)
(***************************************************************************)
\* Row k is the campaign of scenario C: ESTABLISHED, current_budget 600,
\* roas 0.5, under target_roas 150.
ScenarioC(k) ==
    /\ target_roas = 150
    /\ ClassEstablished(Rows[k])
    /\ Rows[k].cost = 600 * Scale
    /\ Rows[k].purchase_value = 300 * Scale

\* C8 as stated: scenario C gives 420, decreased, and the low-budget
\* advisory is appended to the reason.
C8_Original ==
    GotDecisions =>
        \A k \in RowIds :
            ScenarioC(k) =>
                /\ Decisions[k].new_budget = 420 * Scale
                /\ Decisions[k].status = "decreased"
                /\ \E n \in 1..Len(Decisions[k].reason) :
                       Decisions[k].reason[n] = "low_budget"

\* C8 amended: scenario C gives 420, decreased, and the low-budget advisory
\* is not appended (420 is not below max(600 * 0.2, 1) = 120): the reason is
\* the ROAS explanation alone.
C8_ScenarioC ==
    GotDecisions =>
        \A k \in RowIds :
            ScenarioC(k) =>
                /\ Decisions[k].new_budget = 420 * Scale
                /\ Decisions[k].status = "decreased"
                /\ Decisions[k].reason = <<"roas_low">>

\* Scenario C was evaluated and came back as 420.
C8_Witness ==
    /\ GotDecisions
    /\ \E k \in RowIds : ScenarioC(k) /\ Decisions[k].new_budget = 420 * Scale

(***************************************************************************)
(* C9  All-or-nothing result                                               *)
(***************************************************************************)
\* C9 as stated: a call of analyze_campaigns returns the error value when
\* campaign_data is empty and otherwise one decision per input campaign, in
\* input order, with that campaign's campaign_id and old_budget = cost.
C9_AllOrNothing ==
    CoreCalled =>
        IF Len(campaign_data) = 0
        THEN ret.kind = "error" /\ ret.error = "Campaign data is empty."
        ELSE /\ ret.kind = "results"
             /\ Len(Decisions) = Len(campaign_data)
             /\ \A k \in RowIds :
                    /\ Decisions[k].campaign_id = PyStr(campaign_data[k].campaign_id)
                    /\ Decisions[k].old_budget = Rows[k].cost

(***************************************************************************)
(* C10  The low-budget advisory is unreachable                             *)
(***************************************************************************)
\* C10: no decision of a campaign with cost >= 0 is 'decreased' with
\* new_budget < max(current_budget * 0.2, 1), and no reason carries the
\* advisory.
C10_AdvisoryUnreachable ==
    GotDecisions =>
        \A k \in RowIds :
            Rows[k].cost >= 0 =>
                LET d == Decisions[k] IN
                /\ ~(/\ d.status = "decreased"
                     /\ (5 * d.new_budget < Rows[k].cost \/ d.new_budget < Scale))
                /\ \A n \in 1..Len(d.reason) : d.reason[n] # "low_budget"

\* A decrease that survived the minimum-change rule, by each of the two
\* decrease rules, in one batch.
C10_Witness ==
    /\ GotDecisions
    /\ \E k, j \in RowIds :
        /\ Rows[k].cost >= 0 /\ Rows[j].cost >= 0
        /\ Decisions[k].status = "decreased" /\ Decisions[k].reason[1] = "new_cpc_high"
        /\ Decisions[j].status = "decreased" /\ Decisions[j].reason[1] = "roas_low"

====
